---- MODULE Spec2Model ----
(***************************************************************************)
(* cetkaik_core: the absolute and the relative representation of a         *)
(* cetkaik position and the perspective conversions between them.          *)
(*                                                                         *)
(* The library is a set of pure functions over value types.  The model     *)
(* keeps the value the caller currently holds (val) and the call that      *)
(* produced it (last); every public function is an action that consumes    *)
(* the held value and leaves its result.                                   *)
(*                                                                         *)
(* Encoding of the Rust types:                                             *)
(*   Option<T>            None is <<>>, Some(x) is <<x>>                   *)
(*   enum variants        strings named as in the source                   *)
(*   relative::Coord      <<row, col>>   ([usize; 2])                      *)
(*   absolute::Coord      <<Row, Column>>                                  *)
(*   relative::Board      function 0..8 -> (0..8 -> Option<Piece>)         *)
(*   absolute::Board      function from a set of coordinates to Piece      *)
(*   Vec<NonTam2Piece..>  sequence of [color, prof]                        *)
(*   &str / String        sequence of characters                           *)
(***************************************************************************)
EXTENDS Integers, Sequences, FiniteSets, TLC

VARIABLES val, last

vars == <<val, last>>

(***************************************************************************)
(* Bounds of the inputs                                                    *)
(***************************************************************************)
\* number of dense pattern boards offered as inputs
NumPatterns == 5

\* most entries the two reserves (hop1zuo1) of a Field hold together
MaxHop == 3

\* largest row or column index offered in a coordinate that is off the board
MaxIndex == 10

\* longest sequence of reserve operations applied to one Field
MaxOps == 4

\* longest string offered to parse_coord
MaxLabelLen == 4

(***************************************************************************)
(* lib.rs: Color, Profession                                               *)
(***************************************************************************)
Color == {"Kok1", "Huok2"}

Profession ==
    {"Nuak1", "Kauk2", "Gua2", "Kaun1", "Dau2", "Maun1", "Kua2", "Tuk2", "Uai1", "Io"}

None == <<>>

Some(x) == <<x>>

(***************************************************************************)
(* perspective.rs: Perspective                                             *)
(***************************************************************************)
Perspective == {"IaIsDownAndPointsUpward", "IaIsUpAndPointsDownward"}

ia_is_down(p) == p = "IaIsDownAndPointsUpward"

(***************************************************************************)
(* Sides, pieces, coordinates                                              *)
(***************************************************************************)
RelativeSide == {"Upward", "Downward"}

AbsoluteSide == {"ASide", "IASide"}

Tam2 == [kind |-> "Tam2"]

NonTam2Piece(color, prof, side) ==
    [kind |-> "NonTam2Piece", color |-> color, prof |-> prof, side |-> side]

Row == {"A", "E", "I", "U", "O", "Y", "AI", "AU", "IA"}

Column == {"K", "L", "N", "T", "Z", "X", "C", "M", "P"}

AbsoluteCoord == Row \X Column

RelativeCoord == (0..8) \X (0..8)

(***************************************************************************)
(* perspective.rs: side and piece conversions                              *)
(***************************************************************************)
to_absolute_side_flipped(side, p) ==
    IF (side = "Upward" /\ p = "IaIsDownAndPointsUpward")
       \/ (side = "Downward" /\ p = "IaIsUpAndPointsDownward")
    THEN "ASide"
    ELSE "IASide"

to_absolute_side(side, p) ==
    IF (side = "Upward" /\ p = "IaIsDownAndPointsUpward")
       \/ (side = "Downward" /\ p = "IaIsUpAndPointsDownward")
    THEN "IASide"
    ELSE "ASide"

to_relative_side_ignoring_p(side, p) ==
    IF side = "IASide" THEN "Upward" ELSE "Downward"

to_relative_side(side, p) ==
    IF (side = "IASide" /\ p = "IaIsDownAndPointsUpward")
       \/ (side = "ASide" /\ p = "IaIsUpAndPointsDownward")
    THEN "Upward"
    ELSE "Downward"

to_relative_piece_keeping_side(piece, p) ==
    IF piece.kind = "Tam2"
    THEN Tam2
    ELSE NonTam2Piece(piece.color, piece.prof,
                      IF piece.side = "IASide" THEN "Upward" ELSE "Downward")

to_relative_piece(piece, p) ==
    IF piece.kind = "Tam2"
    THEN Tam2
    ELSE NonTam2Piece(piece.color, piece.prof, to_relative_side(piece.side, p))

to_absolute_piece_swapping_color(piece, p) ==
    IF piece.kind = "Tam2"
    THEN Tam2
    ELSE NonTam2Piece(IF piece.color = "Kok1" THEN "Huok2" ELSE "Kok1",
                      piece.prof, to_absolute_side(piece.side, p))

to_absolute_piece(piece, p) ==
    IF piece.kind = "Tam2"
    THEN Tam2
    ELSE NonTam2Piece(piece.color, piece.prof, to_absolute_side(piece.side, p))

(***************************************************************************)
(* perspective.rs: coordinate conversions                                  *)
(***************************************************************************)
\* the vectors `columns` and `rows` of to_absolute_coord, indexed from 0 there
columns == <<"K", "L", "N", "T", "Z", "X", "C", "M", "P">>

\* the row labels in alphabetical order
rows_alphabetical == <<"A", "AI", "AU", "E", "I", "IA", "O", "U", "Y">>

rows == <<"A", "E", "I", "U", "O", "Y", "AI", "AU", "IA">>

to_absolute_coord_unflipped_col(coord, p) ==
    << rows[(IF ia_is_down(p) THEN coord[1] ELSE 8 - coord[1]) + 1],
       columns[coord[2] + 1] >>

to_absolute_coord(coord, p) ==
    << rows[(IF ia_is_down(p) THEN coord[1] ELSE 8 - coord[1]) + 1],
       columns[(IF ia_is_down(p) THEN coord[2] ELSE 8 - coord[2]) + 1] >>

\* the match on `col` in to_relative_coord
columns_col(col) ==
    CASE col = "K" -> 0
      [] col = "L" -> 1
      [] col = "N" -> 2
      [] col = "T" -> 3
      [] col = "Z" -> 4
      [] col = "X" -> 5
      [] col = "C" -> 6
      [] col = "M" -> 7
      [] col = "P" -> 8

\* the match on `row` in to_relative_coord
rows_row(row) ==
    CASE row = "A" -> 0
      [] row = "E" -> 1
      [] row = "I" -> 2
      [] row = "U" -> 3
      [] row = "O" -> 4
      [] row = "Y" -> 5
      [] row = "AI" -> 6
      [] row = "AU" -> 7
      [] row = "IA" -> 8

to_relative_coord(coord, p) ==
    IF ia_is_down(p)
    THEN << rows_row(coord[1]), columns_col(coord[2]) >>
    ELSE << 8 - rows_row(coord[1]), 8 - columns_col(coord[2]) >>

\* whether to_absolute_coord panics: the index into `rows` or `columns` is
\* past the 9 entries, or 8 - row / 8 - col falls below 0, which panics in a
\* build with overflow checks and wraps to an index past the 9 entries in one
\* without
to_absolute_coord_panics(coord, p) ==
    \E n \in {coord[1], coord[2]} :
        (IF ia_is_down(p) THEN n ELSE 8 - n) \notin 0..8

(***************************************************************************)
(* perspective.rs: board conversions                                       *)
(***************************************************************************)
\* exclusive upper end of `for i in 0..8` / `for j in 0..8` in to_absolute_board
to_absolute_board_end == 8

\* exclusive upper end of `for i in 0..8` / `for j in 0..8` in to_relative_board
to_relative_board_end == 8

\* to_absolute_board: the two nested loops visit the cells [i, j] row by row
\* and insert every non-empty one; HashMap::insert replaces an entry already
\* present, so a key keeps the piece of the last cell inserted under it
to_absolute_board(board, p) ==
    LET visited == (0..(to_absolute_board_end - 1)) \X (0..(to_absolute_board_end - 1))
        inserted == {<<to_absolute_coord(c, p), c>> :
                        c \in {d \in visited : board[d[1]][d[2]] # None}}
        keys == {e[1] : e \in inserted}
        under(a) == {e[2] : e \in {x \in inserted : x[1] = a}}
        final(a) == CHOOSE c \in under(a) :
                        \A d \in under(a) : 9 * d[1] + d[2] <= 9 * c[1] + c[2]
    IN  [a \in keys |-> to_absolute_piece(board[final(a)[1]][final(a)[2]][1], p)]

to_relative_board(board, p) ==
    [i \in 0..8 |->
        [j \in 0..8 |->
            IF /\ i < to_relative_board_end
               /\ j < to_relative_board_end
               /\ to_absolute_coord(<<i, j>>, p) \in DOMAIN board
            THEN Some(to_relative_piece(board[to_absolute_coord(<<i, j>>, p)], p))
            ELSE None]]

(***************************************************************************)
(* perspective.rs: field conversions                                       *)
(***************************************************************************)
\* the closures |NonTam2PieceUpward { color, prof }| NonTam2Piece { color, prof }
\* and their three siblings, mapped over a reserve and collected
map_collect(hop1zuo1) ==
    [k \in 1..Len(hop1zuo1) |->
        [color |-> hop1zuo1[k].color, prof |-> hop1zuo1[k].prof]]

to_absolute_field_unswapped(field, p) ==
    [board |-> to_absolute_board(field.current_board, p),
     ia_side_hop1zuo1 |-> map_collect(field.hop1zuo1of_upward),
     a_side_hop1zuo1 |-> map_collect(field.hop1zuo1of_downward)]

to_absolute_field(field, p) ==
    [board |-> to_absolute_board(field.current_board, p),
     ia_side_hop1zuo1 |->
        IF p = "IaIsDownAndPointsUpward"
        THEN map_collect(field.hop1zuo1of_upward)
        ELSE map_collect(field.hop1zuo1of_downward),
     a_side_hop1zuo1 |->
        IF p = "IaIsDownAndPointsUpward"
        THEN map_collect(field.hop1zuo1of_downward)
        ELSE map_collect(field.hop1zuo1of_upward)]

to_relative_field(field, p) ==
    [hop1zuo1of_downward |->
        IF p = "IaIsUpAndPointsDownward"
        THEN map_collect(field.ia_side_hop1zuo1)
        ELSE map_collect(field.a_side_hop1zuo1),
     hop1zuo1of_upward |->
        IF p = "IaIsUpAndPointsDownward"
        THEN map_collect(field.a_side_hop1zuo1)
        ELSE map_collect(field.ia_side_hop1zuo1),
     current_board |-> to_relative_board(field.board, p)]

(***************************************************************************)
(* absolute.rs: parse_coord, serialize_coord                               *)
(***************************************************************************)
\* a character that is not ASCII and takes two bytes in UTF-8
TwoByteChar == "U+00E9"

\* char::len_utf8 on the characters the model uses
len_utf8(ch) == IF ch = TwoByteChar THEN 2 ELSE 1

\* str::len: the length in bytes
RECURSIVE str_len(_)
str_len(s) == IF s = <<>> THEN 0 ELSE len_utf8(Head(s)) + str_len(Tail(s))

\* the match on coord.chars().next()
parse_column(ch) ==
    IF ch \in {"C", "K", "L", "M", "N", "P", "T", "X", "Z"} THEN Some(ch) ELSE None

parse_row_ignoring_case(rest) ==
    LET upper(ch) == IF ch = "i" THEN "I" ELSE ch
        folded == [k \in 1..Len(rest) |-> upper(rest[k])]
    IN  CASE folded = <<"A">> -> Some("A")
          [] folded = <<"A", "I">> -> Some("AI")
          [] folded = <<"A", "U">> -> Some("AU")
          [] folded = <<"E">> -> Some("E")
          [] folded = <<"I">> -> Some("I")
          [] folded = <<"O">> -> Some("O")
          [] folded = <<"U">> -> Some("U")
          [] folded = <<"Y">> -> Some("Y")
          [] folded = <<"I", "A">> -> Some("IA")
          [] OTHER -> None

\* the match on &coord[1..coord.len()]
parse_row(rest) ==
    CASE rest = <<"A">> -> Some("A")
      [] rest = <<"A", "I">> -> Some("AI")
      [] rest = <<"A", "U">> -> Some("AU")
      [] rest = <<"E">> -> Some("E")
      [] rest = <<"I">> -> Some("I")
      [] rest = <<"O">> -> Some("O")
      [] rest = <<"U">> -> Some("U")
      [] rest = <<"Y">> -> Some("Y")
      [] rest = <<"I", "A">> -> Some("IA")
      [] OTHER -> None

parse_coord(coord) ==
    IF str_len(coord) = 0 \/ str_len(coord) > 3
    THEN None
    ELSE IF parse_column(Head(coord)) = None
         THEN None
         ELSE IF parse_row(Tail(coord)) = None
              THEN None
              ELSE Some(<<parse_row(Tail(coord))[1], parse_column(Head(coord))[1]>>)

\* parse_coord panics only where it slices, &coord[1..coord.len()]: the slice
\* is reached once the length check and the column match have passed, and it
\* panics when byte 1 is not a character boundary
parse_coord_panics(coord) ==
    /\ ~(str_len(coord) = 0 \/ str_len(coord) > 3)
    /\ parse_column(Head(coord)) # None
    /\ len_utf8(Head(coord)) # 1

\* the match on `column` in serialize_coord
serialize_column(column) ==
    CASE column = "K" -> <<"K">>
      [] column = "L" -> <<"L">>
      [] column = "M" -> <<"M">>
      [] column = "N" -> <<"N">>
      [] column = "P" -> <<"P">>
      [] column = "Z" -> <<"Z">>
      [] column = "X" -> <<"X">>
      [] column = "C" -> <<"C">>
      [] column = "T" -> <<"T">>

\* the match on `row` in serialize_coord
serialize_row(row) ==
    CASE row = "A" -> <<"A">>
      [] row = "E" -> <<"E">>
      [] row = "I" -> <<"I">>
      [] row = "O" -> <<"O">>
      [] row = "U" -> <<"U">>
      [] row = "Y" -> <<"Y">>
      [] row = "IA" -> <<"I", "A">>
      [] row = "AI" -> <<"A", "I">>
      [] row = "AU" -> <<"A", "U">>

serialize_coord_row_swapped(coord) ==
    serialize_column(coord[2])
        \o (IF coord[1] = "AI" THEN <<"I", "A">> ELSE serialize_row(coord[1]))

serialize_coord(coord) == serialize_column(coord[2]) \o serialize_row(coord[1])

(***************************************************************************)
(* absolute.rs, relative.rs: is_water                                      *)
(***************************************************************************)
absolute_is_water_arm_on_X(coord) ==
    CASE coord[1] = "O" -> coord[2] \in {"N", "T", "Z", "X", "C"}
      [] coord[1] \in {"I", "U", "Y", "AI"} -> coord[2] = "X"
      [] OTHER -> FALSE

\* absolute::is_water
absolute_is_water(coord) ==
    CASE coord[1] = "O" -> coord[2] \in {"N", "T", "Z", "X", "C"}
      [] coord[1] \in {"I", "U", "Y", "AI"} -> coord[2] = "Z"
      [] OTHER -> FALSE

\* usize subtraction without overflow checks: below 0 it wraps to
\* usize::MAX - (b - a - 1), kept as that offset from usize::MAX
usize_wrapping_sub(a, b) ==
    IF a >= b THEN a - b ELSE [usize_max_minus |-> b - a - 1]

\* what rotate_coord can do: 8 - c[0] or 8 - c[1] below 0 panics in a build
\* with overflow checks and wraps in one without
rotate_coord_outcomes(c) ==
    IF c[1] > 8 \/ c[2] > 8
    THEN {[panic |-> TRUE, ret |-> <<>>],
          [panic |-> FALSE,
           ret |-> << usize_wrapping_sub(8, c[1]), usize_wrapping_sub(8, c[2]) >>]}
    ELSE {[panic |-> FALSE, ret |-> << 8 - c[1], 8 - c[2] >>]}

\* a water band that runs from column 1 to column 7
relative_is_water_band_of_7(coord) ==
    \/ (coord[1] = 4 /\ coord[2] \in 1..7)
    \/ (coord[2] = 4 /\ coord[1] \in 2..6)

\* relative::is_water
relative_is_water(coord) ==
    LET row == coord[1]
        col == coord[2]
    IN  \/ (row = 4 /\ col = 2)
        \/ (row = 4 /\ col = 3)
        \/ (row = 4 /\ col = 4)
        \/ (row = 4 /\ col = 5)
        \/ (row = 4 /\ col = 6)
        \/ (row = 2 /\ col = 4)
        \/ (row = 3 /\ col = 4)
        \/ (row = 5 /\ col = 4)
        \/ (row = 6 /\ col = 4)

(***************************************************************************)
(* relative.rs: rotation                                                   *)
(***************************************************************************)
\* impl Not for relative::Side
relative_not(side) == IF side = "Upward" THEN "Downward" ELSE "Upward"

\* a rotation that leaves the side of the piece as it was
rotate_piece_or_null_keeping_side(p) == p

rotate_piece_or_null(p) ==
    IF p = None
    THEN None
    ELSE IF p[1].kind = "Tam2"
         THEN Some(p[1])
         ELSE Some(NonTam2Piece(p[1].color, p[1].prof, relative_not(p[1].side)))

rotate_coord(c) == << 8 - c[1], 8 - c[2] >>

rotate_board_loops_to_8(b) ==
    [i \in 0..8 |-> [j \in 0..8 |->
        IF i < 8 /\ j < 8 THEN rotate_piece_or_null(b[8 - i][8 - j]) ELSE None]]

\* the loops `for i in 0..9` / `for j in 0..9` assign every cell of ans
rotate_board(b) ==
    [i \in 0..8 |-> [j \in 0..8 |-> rotate_piece_or_null(b[8 - i][8 - j])]]

(***************************************************************************)
(* relative.rs, absolute.rs: distance                                      *)
(***************************************************************************)
\* i32::abs
i32_abs(n) == IF n < 0 THEN 0 - n ELSE n

\* Ord::max
i32_max(m, n) == IF n >= m THEN n ELSE m

relative_distance_manhattan(a, b) ==
    i32_abs(a[1] - b[1]) + i32_abs(a[2] - b[2])

relative_distance_no_abs(a, b) ==
    i32_max(a[1] - b[1], a[2] - b[2])

\* relative::distance; the try_from(..).unwrap() conversions succeed on every
\* index that fits in i32
relative_distance(a, b) ==
    LET x_distance == i32_abs(a[1] - b[1])
        y_distance == i32_abs(a[2] - b[2])
    IN  i32_max(x_distance, y_distance)

absolute_distance_mixed_perspectives(a, b) ==
    relative_distance(to_relative_coord(a, "IaIsDownAndPointsUpward"),
                      to_relative_coord(b, "IaIsUpAndPointsDownward"))

\* absolute::distance
absolute_distance(a, b) ==
    relative_distance(to_relative_coord(a, "IaIsDownAndPointsUpward"),
                      to_relative_coord(b, "IaIsDownAndPointsUpward"))

(***************************************************************************)
(* relative.rs, absolute.rs: impl Piece, impl Not for Side                 *)
(***************************************************************************)
relative_is_tam2(self) ==
    CASE self.kind = "Tam2" -> TRUE
      [] self.kind = "NonTam2Piece" -> FALSE

relative_has_color(self, clr) ==
    CASE self.kind = "Tam2" -> FALSE
      [] self.kind = "NonTam2Piece" -> self.color = clr

relative_has_prof(self, prf) ==
    CASE self.kind = "Tam2" -> FALSE
      [] self.kind = "NonTam2Piece" -> self.prof = prf

relative_has_side(self, sid) ==
    CASE self.kind = "Tam2" -> FALSE
      [] self.kind = "NonTam2Piece" -> self.side = sid

absolute_is_tam2(self) ==
    CASE self.kind = "Tam2" -> TRUE
      [] self.kind = "NonTam2Piece" -> FALSE

\* a has_color that counts Tam2 as a black piece
absolute_has_color_tam2_black(self, clr) ==
    CASE self.kind = "Tam2" -> clr = "Huok2"
      [] self.kind = "NonTam2Piece" -> self.color = clr

absolute_has_color(self, clr) ==
    CASE self.kind = "Tam2" -> FALSE
      [] self.kind = "NonTam2Piece" -> self.color = clr

absolute_has_prof(self, prf) ==
    CASE self.kind = "Tam2" -> FALSE
      [] self.kind = "NonTam2Piece" -> self.prof = prf

absolute_has_side(self, sid) ==
    CASE self.kind = "Tam2" -> FALSE
      [] self.kind = "NonTam2Piece" -> self.side = sid

\* a flip that maps both sides to IASide
absolute_not_always_ia(side) == "IASide"

absolute_not(side) ==
    CASE side = "ASide" -> "IASide"
      [] side = "IASide" -> "ASide"

(***************************************************************************)
(* relative.rs, absolute.rs: impl Field                                    *)
(***************************************************************************)
\* Iterator::rposition: the index of the last equal entry
rposition(hop1zuo1, color, prof) ==
    LET matching == {k \in 1..Len(hop1zuo1) :
                        hop1zuo1[k] = [color |-> color, prof |-> prof]}
    IN  IF matching = {}
        THEN None
        ELSE Some((CHOOSE k \in matching : \A m \in matching : m <= k) - 1)

\* Iterator::position with the closure |x| *x == NonTam2Piece { color, prof }:
\* the index, from 0, of the first equal entry
position(hop1zuo1, color, prof) ==
    LET matching == {k \in 1..Len(hop1zuo1) :
                        hop1zuo1[k] = [color |-> color, prof |-> prof]}
    IN  IF matching = {}
        THEN None
        ELSE Some((CHOOSE k \in matching : \A m \in matching : k <= m) - 1)

\* an index that is looked up and then left in place
vec_remove_skipped(hop1zuo1, index) == hop1zuo1

\* Vec::swap_remove(index): the last entry takes the place of the removed one
vec_swap_remove(hop1zuo1, index) ==
    [k \in 1..(Len(hop1zuo1) - 1) |->
        IF k = index + 1 THEN hop1zuo1[Len(hop1zuo1)] ELSE hop1zuo1[k]]

\* Vec::remove(index): the later entries move one place to the front
vec_remove(hop1zuo1, index) ==
    [k \in 1..(Len(hop1zuo1) - 1) |->
        IF k <= index THEN hop1zuo1[k] ELSE hop1zuo1[k + 1]]

\* a push that keeps the reserve free of duplicates
vec_push_unless_present(hop1zuo1, x) ==
    IF \E k \in 1..Len(hop1zuo1) : hop1zuo1[k] = x THEN hop1zuo1 ELSE Append(hop1zuo1, x)

\* Vec::push
vec_push(hop1zuo1, x) == Append(hop1zuo1, x)

\* relative::Field::insert_nontam_piece_into_hop1zuo1 (&mut self): self afterwards
relative_insert_nontam_piece_into_hop1zuo1(self, color, prof, side) ==
    IF side = "Upward"
    THEN [self EXCEPT !.hop1zuo1of_upward =
                          vec_push(@, [color |-> color, prof |-> prof])]
    ELSE [self EXCEPT !.hop1zuo1of_downward =
                          vec_push(@, [color |-> color, prof |-> prof])]

\* absolute::Field::insert_nontam_piece_into_hop1zuo1 (&mut self): self afterwards
absolute_insert_nontam_piece_into_hop1zuo1(self, color, prof, side) ==
    IF side = "ASide"
    THEN [self EXCEPT !.a_side_hop1zuo1 =
                          vec_push(@, [color |-> color, prof |-> prof])]
    ELSE [self EXCEPT !.ia_side_hop1zuo1 =
                          vec_push(@, [color |-> color, prof |-> prof])]

\* a lookup that falls back on the reserve of the other side
relative_find_and_remove_piece_from_either_hop1zuo1(self, color, prof, side) ==
    LET up == position(self.hop1zuo1of_upward, color, prof)
        down == position(self.hop1zuo1of_downward, color, prof)
        first == IF side = "Upward" THEN up ELSE down
    IN  [self |-> self,
         ret |-> IF up = None /\ down = None
                 THEN None
                 ELSE IF up # None /\ (side = "Upward" \/ down = None)
                      THEN Some([self EXCEPT !.hop1zuo1of_upward = vec_remove(@, up[1])])
                      ELSE Some([self EXCEPT !.hop1zuo1of_downward = vec_remove(@, down[1])])]

\* relative::Field::find_and_remove_piece_from_hop1zuo1 (&self): the value
\* returned (ret) and self afterwards; the entry is removed from the clone
\* `that`, and `?` returns None when position finds nothing
relative_find_and_remove_piece_from_hop1zuo1(self, color, prof, side) ==
    LET that == self
        index == IF side = "Upward"
                 THEN position(that.hop1zuo1of_upward, color, prof)
                 ELSE position(that.hop1zuo1of_downward, color, prof)
    IN  [self |-> self,
         ret |-> IF index = None
                 THEN None
                 ELSE IF side = "Upward"
                      THEN Some([that EXCEPT !.hop1zuo1of_upward =
                                                 vec_remove(@, index[1])])
                      ELSE Some([that EXCEPT !.hop1zuo1of_downward =
                                                 vec_remove(@, index[1])])]

\* absolute::Field::find_and_remove_piece_from_hop1zuo1 (&self)
absolute_find_and_remove_piece_from_hop1zuo1(self, color, prof, side) ==
    LET that == self
        index == IF side = "ASide"
                 THEN position(that.a_side_hop1zuo1, color, prof)
                 ELSE position(that.ia_side_hop1zuo1, color, prof)
    IN  [self |-> self,
         ret |-> IF index = None
                 THEN None
                 ELSE IF side = "ASide"
                      THEN Some([that EXCEPT !.a_side_hop1zuo1 =
                                                 vec_remove(@, index[1])])
                      ELSE Some([that EXCEPT !.ia_side_hop1zuo1 =
                                                 vec_remove(@, index[1])])]

(***************************************************************************)
(* relative.rs, absolute.rs: the initial boards                            *)
(***************************************************************************)
\* an array literal of nine elements, indexed from 0
Array9(s) == [k \in 0..8 |-> s[k + 1]]

yhuap_initial_board_where_black_king_points_upward ==
    Array9(<<
        Array9(<<
            Some(NonTam2Piece("Huok2", "Kua2", "Downward")),
            Some(NonTam2Piece("Huok2", "Maun1", "Downward")),
            Some(NonTam2Piece("Huok2", "Kaun1", "Downward")),
            Some(NonTam2Piece("Huok2", "Uai1", "Downward")),
            Some(NonTam2Piece("Kok1", "Io", "Downward")),
            Some(NonTam2Piece("Kok1", "Uai1", "Downward")),
            Some(NonTam2Piece("Kok1", "Kaun1", "Downward")),
            Some(NonTam2Piece("Kok1", "Maun1", "Downward")),
            Some(NonTam2Piece("Kok1", "Kua2", "Downward"))>>),
        Array9(<<
            Some(NonTam2Piece("Kok1", "Tuk2", "Downward")),
            Some(NonTam2Piece("Kok1", "Gua2", "Downward")),
            None,
            Some(NonTam2Piece("Kok1", "Dau2", "Downward")),
            None,
            Some(NonTam2Piece("Huok2", "Dau2", "Downward")),
            None,
            Some(NonTam2Piece("Huok2", "Gua2", "Downward")),
            Some(NonTam2Piece("Huok2", "Tuk2", "Downward"))>>),
        Array9(<<
            Some(NonTam2Piece("Huok2", "Kauk2", "Downward")),
            Some(NonTam2Piece("Kok1", "Kauk2", "Downward")),
            Some(NonTam2Piece("Huok2", "Kauk2", "Downward")),
            Some(NonTam2Piece("Kok1", "Kauk2", "Downward")),
            Some(NonTam2Piece("Kok1", "Nuak1", "Downward")),
            Some(NonTam2Piece("Kok1", "Kauk2", "Downward")),
            Some(NonTam2Piece("Huok2", "Kauk2", "Downward")),
            Some(NonTam2Piece("Kok1", "Kauk2", "Downward")),
            Some(NonTam2Piece("Huok2", "Kauk2", "Downward"))>>),
        Array9(<<
            None,
            None,
            None,
            None,
            None,
            None,
            None,
            None,
            None>>),
        Array9(<<
            None,
            None,
            None,
            None,
            Some(Tam2),
            None,
            None,
            None,
            None>>),
        Array9(<<
            None,
            None,
            None,
            None,
            None,
            None,
            None,
            None,
            None>>),
        Array9(<<
            Some(NonTam2Piece("Huok2", "Kauk2", "Upward")),
            Some(NonTam2Piece("Kok1", "Kauk2", "Upward")),
            Some(NonTam2Piece("Huok2", "Kauk2", "Upward")),
            Some(NonTam2Piece("Kok1", "Kauk2", "Upward")),
            Some(NonTam2Piece("Huok2", "Nuak1", "Upward")),
            Some(NonTam2Piece("Kok1", "Kauk2", "Upward")),
            Some(NonTam2Piece("Huok2", "Kauk2", "Upward")),
            Some(NonTam2Piece("Kok1", "Kauk2", "Upward")),
            Some(NonTam2Piece("Huok2", "Kauk2", "Upward"))>>),
        Array9(<<
            Some(NonTam2Piece("Huok2", "Tuk2", "Upward")),
            Some(NonTam2Piece("Huok2", "Gua2", "Upward")),
            None,
            Some(NonTam2Piece("Huok2", "Dau2", "Upward")),
            None,
            Some(NonTam2Piece("Kok1", "Dau2", "Upward")),
            None,
            Some(NonTam2Piece("Kok1", "Gua2", "Upward")),
            Some(NonTam2Piece("Kok1", "Tuk2", "Upward"))>>),
        Array9(<<
            Some(NonTam2Piece("Kok1", "Kua2", "Upward")),
            Some(NonTam2Piece("Kok1", "Maun1", "Upward")),
            Some(NonTam2Piece("Kok1", "Kaun1", "Upward")),
            Some(NonTam2Piece("Kok1", "Uai1", "Upward")),
            Some(NonTam2Piece("Huok2", "Io", "Upward")),
            Some(NonTam2Piece("Huok2", "Uai1", "Upward")),
            Some(NonTam2Piece("Huok2", "Kaun1", "Upward")),
            Some(NonTam2Piece("Huok2", "Maun1", "Upward")),
            Some(NonTam2Piece("Huok2", "Kua2", "Upward"))>>)>>)

yhuap_initial_board_where_red_king_points_upward ==
    rotate_board(yhuap_initial_board_where_black_king_points_upward)

yhuap_initial_board ==
       <<"O", "Z">> :> Tam2
    @@ <<"AI", "Z">> :> NonTam2Piece("Huok2", "Nuak1", "IASide")
    @@ <<"AI", "K">> :> NonTam2Piece("Huok2", "Kauk2", "IASide")
    @@ <<"AI", "N">> :> NonTam2Piece("Huok2", "Kauk2", "IASide")
    @@ <<"AI", "C">> :> NonTam2Piece("Huok2", "Kauk2", "IASide")
    @@ <<"AI", "P">> :> NonTam2Piece("Huok2", "Kauk2", "IASide")
    @@ <<"AI", "L">> :> NonTam2Piece("Kok1", "Kauk2", "IASide")
    @@ <<"AI", "T">> :> NonTam2Piece("Kok1", "Kauk2", "IASide")
    @@ <<"AI", "X">> :> NonTam2Piece("Kok1", "Kauk2", "IASide")
    @@ <<"AI", "M">> :> NonTam2Piece("Kok1", "Kauk2", "IASide")
    @@ <<"AU", "L">> :> NonTam2Piece("Huok2", "Gua2", "IASide")
    @@ <<"AU", "M">> :> NonTam2Piece("Kok1", "Gua2", "IASide")
    @@ <<"IA", "C">> :> NonTam2Piece("Huok2", "Kaun1", "IASide")
    @@ <<"IA", "N">> :> NonTam2Piece("Kok1", "Kaun1", "IASide")
    @@ <<"AU", "T">> :> NonTam2Piece("Huok2", "Dau2", "IASide")
    @@ <<"AU", "X">> :> NonTam2Piece("Kok1", "Dau2", "IASide")
    @@ <<"IA", "M">> :> NonTam2Piece("Huok2", "Maun1", "IASide")
    @@ <<"IA", "L">> :> NonTam2Piece("Kok1", "Maun1", "IASide")
    @@ <<"IA", "P">> :> NonTam2Piece("Huok2", "Kua2", "IASide")
    @@ <<"AU", "P">> :> NonTam2Piece("Kok1", "Tuk2", "IASide")
    @@ <<"IA", "X">> :> NonTam2Piece("Huok2", "Uai1", "IASide")
    @@ <<"IA", "T">> :> NonTam2Piece("Kok1", "Uai1", "IASide")
    @@ <<"IA", "Z">> :> NonTam2Piece("Huok2", "Io", "IASide")
    @@ <<"IA", "K">> :> NonTam2Piece("Kok1", "Kua2", "IASide")
    @@ <<"AU", "K">> :> NonTam2Piece("Huok2", "Tuk2", "IASide")
    @@ <<"I", "Z">> :> NonTam2Piece("Kok1", "Nuak1", "ASide")
    @@ <<"I", "K">> :> NonTam2Piece("Huok2", "Kauk2", "ASide")
    @@ <<"I", "N">> :> NonTam2Piece("Huok2", "Kauk2", "ASide")
    @@ <<"I", "C">> :> NonTam2Piece("Huok2", "Kauk2", "ASide")
    @@ <<"I", "P">> :> NonTam2Piece("Huok2", "Kauk2", "ASide")
    @@ <<"I", "L">> :> NonTam2Piece("Kok1", "Kauk2", "ASide")
    @@ <<"I", "T">> :> NonTam2Piece("Kok1", "Kauk2", "ASide")
    @@ <<"I", "X">> :> NonTam2Piece("Kok1", "Kauk2", "ASide")
    @@ <<"I", "M">> :> NonTam2Piece("Kok1", "Kauk2", "ASide")
    @@ <<"E", "M">> :> NonTam2Piece("Huok2", "Gua2", "ASide")
    @@ <<"E", "L">> :> NonTam2Piece("Kok1", "Gua2", "ASide")
    @@ <<"A", "N">> :> NonTam2Piece("Huok2", "Kaun1", "ASide")
    @@ <<"A", "C">> :> NonTam2Piece("Kok1", "Kaun1", "ASide")
    @@ <<"E", "X">> :> NonTam2Piece("Huok2", "Dau2", "ASide")
    @@ <<"E", "T">> :> NonTam2Piece("Kok1", "Dau2", "ASide")
    @@ <<"A", "L">> :> NonTam2Piece("Huok2", "Maun1", "ASide")
    @@ <<"A", "M">> :> NonTam2Piece("Kok1", "Maun1", "ASide")
    @@ <<"A", "K">> :> NonTam2Piece("Huok2", "Kua2", "ASide")
    @@ <<"E", "P">> :> NonTam2Piece("Huok2", "Tuk2", "ASide")
    @@ <<"A", "P">> :> NonTam2Piece("Kok1", "Kua2", "ASide")
    @@ <<"E", "K">> :> NonTam2Piece("Kok1", "Tuk2", "ASide")
    @@ <<"A", "T">> :> NonTam2Piece("Huok2", "Uai1", "ASide")
    @@ <<"A", "X">> :> NonTam2Piece("Kok1", "Uai1", "ASide")
    @@ <<"A", "Z">> :> NonTam2Piece("Kok1", "Io", "ASide")

(***************************************************************************)
(* Inputs                                                                  *)
(***************************************************************************)
\* contents a cell of a pattern board cycles through
RelativeCycle ==
    << None,
       Some(Tam2),
       Some(NonTam2Piece("Kok1", "Uai1", "Upward")),
       Some(NonTam2Piece("Huok2", "Kauk2", "Downward")),
       Some(NonTam2Piece("Huok2", "Io", "Upward")) >>

AbsoluteCycle ==
    << None,
       Some(Tam2),
       Some(NonTam2Piece("Kok1", "Uai1", "IASide")),
       Some(NonTam2Piece("Huok2", "Kauk2", "ASide")),
       Some(NonTam2Piece("Huok2", "Io", "IASide")) >>

\* the k-th dense relative board: cell [i, j] holds entry 9 i + j + k of the cycle
RelativePattern(k) ==
    [i \in 0..8 |-> [j \in 0..8 |->
        RelativeCycle[((9 * i + j + k) % Len(RelativeCycle)) + 1]]]

\* the k-th absolute board, laid out the same way over the 81 coordinates
AbsolutePattern(k) ==
    LET content(c) ==
            AbsoluteCycle[((9 * rows_row(c[1]) + columns_col(c[2]) + k)
                              % Len(AbsoluteCycle)) + 1]
        occupied == {c \in AbsoluteCoord : content(c) # None}
    IN  [c \in occupied |-> content(c)[1]]

EmptyRelativeBoard == [i \in 0..8 |-> [j \in 0..8 |-> None]]

EmptyAbsoluteBoard == <<>>

RelativeBoardInputs ==
    {EmptyRelativeBoard, yhuap_initial_board_where_black_king_points_upward}
        \cup {RelativePattern(k) : k \in 0..(NumPatterns - 1)}

AbsoluteBoardInputs ==
    {EmptyAbsoluteBoard, yhuap_initial_board}
        \cup {AbsolutePattern(k) : k \in 0..(NumPatterns - 1)}

\* reserve entries offered as inputs: two different (color, prof) pairs
HandSample == {[color |-> "Kok1", prof |-> "Kauk2"], [color |-> "Huok2", prof |-> "Uai1"]}

\* (color, prof) pairs passed to find_and_remove_piece_from_hop1zuo1: the two
\* entries a reserve may hold and one that shares its color with the first and
\* its profession with the second
HandArgs == HandSample \cup {[color |-> "Kok1", prof |-> "Uai1"]}

Hop1zuo1Inputs == UNION {[1..n -> HandSample] : n \in 0..MaxHop}

RelativeFieldInputs ==
    {f \in [current_board : RelativeBoardInputs,
            hop1zuo1of_upward : Hop1zuo1Inputs,
            hop1zuo1of_downward : Hop1zuo1Inputs] :
        Len(f.hop1zuo1of_upward) + Len(f.hop1zuo1of_downward) <= MaxHop}

AbsoluteFieldInputs ==
    {f \in [board : AbsoluteBoardInputs,
            a_side_hop1zuo1 : Hop1zuo1Inputs,
            ia_side_hop1zuo1 : Hop1zuo1Inputs] :
        Len(f.a_side_hop1zuo1) + Len(f.ia_side_hop1zuo1) <= MaxHop}

RelativePieceInputs ==
    {Tam2} \cup {NonTam2Piece(c, f, s) : c \in Color, f \in Profession, s \in RelativeSide}

AbsolutePieceInputs ==
    {Tam2} \cup {NonTam2Piece(c, f, s) : c \in Color, f \in Profession, s \in AbsoluteSide}

\* values of [usize; 2] with a row or column index past 8
OutOfRangeCoord == ((0..MaxIndex) \X (0..MaxIndex)) \ RelativeCoord

\* pairs of [usize; 2] values of which at least one is off the board
OutOfRangePairs ==
    (OutOfRangeCoord \X (RelativeCoord \cup OutOfRangeCoord))
        \cup (RelativeCoord \X OutOfRangeCoord)

\* the nine row labels as they are written
RowLabels ==
    {<<"A">>, <<"E">>, <<"I">>, <<"U">>, <<"O">>, <<"Y">>,
     <<"A", "I">>, <<"A", "U">>, <<"I", "A">>}

\* the 81 well-formed labels
Labels == {<<c>> \o r : c \in Column, r \in RowLabels}

\* characters of the other strings offered to parse_coord
LabelAlphabet == {"K", "L", "Z", "A", "I", "U", "i", TwoByteChar}

StrInputs == Labels \cup UNION {[1..n -> LabelAlphabet] : n \in 0..MaxLabelLen}

(***************************************************************************)
(* State                                                                   *)
(***************************************************************************)
\* a value together with its Rust type
Typed(ty, v) == [ty |-> ty, v |-> v]

Unit == Typed("()", <<>>)

NoPerspective == "none"

Call(op, p, arg) == [op |-> op, p |-> p, arg |-> arg]

\* a call of a Field method: arg is the receiver before the call, self the
\* receiver after it, prev the call that returned the receiver (None when the
\* receiver is not the result of a call on a Field)
MethodCall(op, arg, color, prof, side, self, prev) ==
    [op |-> op, p |-> NoPerspective, arg |-> arg,
     color |-> color, prof |-> prof, side |-> side, self |-> self, prev |-> prev]

\* a call of a Piece predicate: arg is the piece, x the color, profession or
\* side asked about
PredicateCall(op, arg, x) == [op |-> op, p |-> NoPerspective, arg |-> arg, x |-> x]

\* a call that takes its argument by value: arg is the argument passed, b the
\* caller's value of it after the call
ByValueCall(op, arg, b) == [op |-> op, p |-> NoPerspective, arg |-> arg, b |-> b]

\* the call whose Some(..) the next call unwraps
Prev ==
    IF val.ty \in {"relative::Field", "absolute::Field"}
    THEN None
    ELSE Some([op |-> last.op, arg |-> last.arg,
               color |-> last.color, prof |-> last.prof, side |-> last.side])

\* the Field a method is called on: the held Field, or the Field inside the
\* Some(..) a previous find_and_remove_piece_from_hop1zuo1 returned
Receiver == IF val.ty \in {"relative::Field", "absolute::Field"} THEN val.v ELSE val.v[1]

Init ==
    /\ last = Call("init", NoPerspective, Unit)
    /\ \/ \E x \in RelativeFieldInputs : val = Typed("relative::Field", x)
       \/ \E x \in AbsoluteFieldInputs : val = Typed("absolute::Field", x)
       \/ \E x \in RelativeBoardInputs : val = Typed("relative::Board", x)
       \/ \E x \in AbsoluteBoardInputs : val = Typed("absolute::Board", x)
       \/ \E x \in RelativeCoord : val = Typed("relative::Coord", x)
       \/ \E x \in AbsoluteCoord : val = Typed("absolute::Coord", x)
       \/ \E x \in RelativePieceInputs : val = Typed("relative::Piece", x)
       \/ \E x \in AbsolutePieceInputs : val = Typed("absolute::Piece", x)
       \/ \E x \in RelativeSide : val = Typed("relative::Side", x)
       \/ \E x \in AbsoluteSide : val = Typed("absolute::Side", x)
       \/ \E x \in StrInputs : val = Typed("&str", x)
       \/ \E x \in RelativeCoord \X RelativeCoord :
             val = Typed("(relative::Coord, relative::Coord)", x)
       \/ \E x \in AbsoluteCoord \X AbsoluteCoord :
             val = Typed("(absolute::Coord, absolute::Coord)", x)
       \/ \E x \in OutOfRangeCoord : val = Typed("[usize; 2]", x)
       \/ \E x \in OutOfRangePairs : val = Typed("([usize; 2], [usize; 2])", x)

(***************************************************************************)
(* Actions: one per public function                                        *)
(***************************************************************************)
ToAbsoluteBoard(p) ==
    /\ val.ty = "relative::Board"
    /\ val' = Typed("absolute::Board", to_absolute_board(val.v, p))
    /\ last' = Call("to_absolute_board", p, val)

ToRelativeBoard(p) ==
    /\ val.ty = "absolute::Board"
    /\ val' = Typed("relative::Board", to_relative_board(val.v, p))
    /\ last' = Call("to_relative_board", p, val)

ToAbsoluteField(p) ==
    /\ val.ty = "relative::Field"
    /\ val' = Typed("absolute::Field", to_absolute_field(val.v, p))
    /\ last' = Call("to_absolute_field", p, val)

ToRelativeField(p) ==
    /\ val.ty = "absolute::Field"
    /\ val' = Typed("relative::Field", to_relative_field(val.v, p))
    /\ last' = Call("to_relative_field", p, val)

ToAbsoluteSide(p) ==
    /\ val.ty = "relative::Side"
    /\ val' = Typed("absolute::Side", to_absolute_side(val.v, p))
    /\ last' = Call("to_absolute_side", p, val)

ToRelativeSide(p) ==
    /\ val.ty = "absolute::Side"
    /\ val' = Typed("relative::Side", to_relative_side(val.v, p))
    /\ last' = Call("to_relative_side", p, val)

ToAbsolutePiece(p) ==
    /\ val.ty = "relative::Piece"
    /\ val' = Typed("absolute::Piece", to_absolute_piece(val.v, p))
    /\ last' = Call("to_absolute_piece", p, val)

ToRelativePiece(p) ==
    /\ val.ty = "absolute::Piece"
    /\ val' = Typed("relative::Piece", to_relative_piece(val.v, p))
    /\ last' = Call("to_relative_piece", p, val)

ToAbsoluteCoord(p) ==
    /\ val.ty = "relative::Coord"
    /\ val' = Typed("absolute::Coord", to_absolute_coord(val.v, p))
    /\ last' = Call("to_absolute_coord", p, val)

ToRelativeCoord(p) ==
    /\ val.ty = "absolute::Coord"
    /\ val' = Typed("relative::Coord", to_relative_coord(val.v, p))
    /\ last' = Call("to_relative_coord", p, val)

ParseCoord ==
    /\ val.ty = "&str"
    /\ val' = IF parse_coord_panics(val.v)
              THEN Typed("panic", <<>>)
              ELSE Typed("Option<absolute::Coord>", parse_coord(val.v))
    /\ last' = Call("parse_coord", NoPerspective, val)

SerializeCoord ==
    /\ val.ty = "absolute::Coord"
    /\ val' = Typed("String", serialize_coord(val.v))
    /\ last' = Call("serialize_coord", NoPerspective, val)

YhuapInitialBoardWhereBlackKingPointsUpward ==
    /\ val' = Typed("relative::Board", yhuap_initial_board_where_black_king_points_upward)
    /\ last' = Call("yhuap_initial_board_where_black_king_points_upward", NoPerspective, Unit)

YhuapInitialBoardWhereRedKingPointsUpward ==
    /\ val' = Typed("relative::Board", yhuap_initial_board_where_red_king_points_upward)
    /\ last' = Call("yhuap_initial_board_where_red_king_points_upward", NoPerspective, Unit)

YhuapInitialBoard ==
    /\ val' = Typed("absolute::Board", yhuap_initial_board)
    /\ last' = Call("yhuap_initial_board", NoPerspective, Unit)

AbsoluteIsWater ==
    /\ val.ty = "absolute::Coord"
    /\ val' = Typed("bool", absolute_is_water(val.v))
    /\ last' = Call("absolute::is_water", NoPerspective, val)

RelativeIsWater ==
    /\ val.ty = "relative::Coord"
    /\ val' = Typed("bool", relative_is_water(val.v))
    /\ last' = Call("relative::is_water", NoPerspective, val)

RotateCoord ==
    /\ val.ty = "relative::Coord"
    /\ val' = Typed("relative::Coord", rotate_coord(val.v))
    /\ last' = Call("rotate_coord", NoPerspective, val)

RotateBoard ==
    /\ val.ty = "relative::Board"
    /\ LET b == val.v
           ans == rotate_board(b)
       IN  /\ val' = Typed("relative::Board", ans)
           /\ last' = ByValueCall("rotate_board", val, b)

RelativeDistance ==
    /\ val.ty = "(relative::Coord, relative::Coord)"
    /\ val' = Typed("i32", relative_distance(val.v[1], val.v[2]))
    /\ last' = Call("relative::distance", NoPerspective, val)

AbsoluteDistance ==
    /\ val.ty = "(absolute::Coord, absolute::Coord)"
    /\ val' = Typed("i32", absolute_distance(val.v[1], val.v[2]))
    /\ last' = Call("absolute::distance", NoPerspective, val)

RelativeInsert(color, prof, side) ==
    /\ val.ty = "relative::Field"
    /\ Len(val.v.hop1zuo1of_upward) + Len(val.v.hop1zuo1of_downward) < MaxHop
    /\ LET self == relative_insert_nontam_piece_into_hop1zuo1(val.v, color, prof, side)
       IN  /\ val' = Typed("relative::Field", self)
           /\ last' = MethodCall("relative::Field::insert_nontam_piece_into_hop1zuo1",
                                 val, color, prof, side, self, None)

AbsoluteInsert(color, prof, side) ==
    /\ val.ty = "absolute::Field"
    /\ Len(val.v.a_side_hop1zuo1) + Len(val.v.ia_side_hop1zuo1) < MaxHop
    /\ LET self == absolute_insert_nontam_piece_into_hop1zuo1(val.v, color, prof, side)
       IN  /\ val' = Typed("absolute::Field", self)
           /\ last' = MethodCall("absolute::Field::insert_nontam_piece_into_hop1zuo1",
                                 val, color, prof, side, self, None)

RelativeFindAndRemove(color, prof, side) ==
    /\ \/ val.ty = "relative::Field"
       \/ val.ty = "Option<relative::Field>" /\ val.v # None
    /\ LET r == relative_find_and_remove_piece_from_hop1zuo1(Receiver, color, prof, side)
       IN  /\ val' = Typed("Option<relative::Field>", r.ret)
           /\ last' = MethodCall("relative::Field::find_and_remove_piece_from_hop1zuo1",
                                 Typed("relative::Field", Receiver),
                                 color, prof, side, r.self, Prev)

AbsoluteFindAndRemove(color, prof, side) ==
    /\ \/ val.ty = "absolute::Field"
       \/ val.ty = "Option<absolute::Field>" /\ val.v # None
    /\ LET r == absolute_find_and_remove_piece_from_hop1zuo1(Receiver, color, prof, side)
       IN  /\ val' = Typed("Option<absolute::Field>", r.ret)
           /\ last' = MethodCall("absolute::Field::find_and_remove_piece_from_hop1zuo1",
                                 Typed("absolute::Field", Receiver),
                                 color, prof, side, r.self, Prev)

RelativeIsTam2 ==
    /\ val.ty = "relative::Piece"
    /\ val' = Typed("bool", relative_is_tam2(val.v))
    /\ last' = Call("relative::Piece::is_tam2", NoPerspective, val)

RelativeHasColor(clr) ==
    /\ val.ty = "relative::Piece"
    /\ val' = Typed("bool", relative_has_color(val.v, clr))
    /\ last' = PredicateCall("relative::Piece::has_color", val, clr)

RelativeHasProf(prf) ==
    /\ val.ty = "relative::Piece"
    /\ val' = Typed("bool", relative_has_prof(val.v, prf))
    /\ last' = PredicateCall("relative::Piece::has_prof", val, prf)

RelativeHasSide(sid) ==
    /\ val.ty = "relative::Piece"
    /\ val' = Typed("bool", relative_has_side(val.v, sid))
    /\ last' = PredicateCall("relative::Piece::has_side", val, sid)

AbsoluteIsTam2 ==
    /\ val.ty = "absolute::Piece"
    /\ val' = Typed("bool", absolute_is_tam2(val.v))
    /\ last' = Call("absolute::Piece::is_tam2", NoPerspective, val)

AbsoluteHasColor(clr) ==
    /\ val.ty = "absolute::Piece"
    /\ val' = Typed("bool", absolute_has_color(val.v, clr))
    /\ last' = PredicateCall("absolute::Piece::has_color", val, clr)

AbsoluteHasProf(prf) ==
    /\ val.ty = "absolute::Piece"
    /\ val' = Typed("bool", absolute_has_prof(val.v, prf))
    /\ last' = PredicateCall("absolute::Piece::has_prof", val, prf)

AbsoluteHasSide(sid) ==
    /\ val.ty = "absolute::Piece"
    /\ val' = Typed("bool", absolute_has_side(val.v, sid))
    /\ last' = PredicateCall("absolute::Piece::has_side", val, sid)

RelativeNot ==
    /\ val.ty = "relative::Side"
    /\ val' = Typed("relative::Side", relative_not(val.v))
    /\ last' = Call("relative::Side::not", NoPerspective, val)

AbsoluteNot ==
    /\ val.ty = "absolute::Side"
    /\ val' = Typed("absolute::Side", absolute_not(val.v))
    /\ last' = Call("absolute::Side::not", NoPerspective, val)

\* the functions that take a relative::Coord, called with a [usize; 2] that is
\* off the board
ToAbsoluteCoordOutOfRange(p) ==
    /\ val.ty = "[usize; 2]"
    /\ val' = IF to_absolute_coord_panics(val.v, p)
              THEN Typed("panic", <<>>)
              ELSE Typed("absolute::Coord", to_absolute_coord(val.v, p))
    /\ last' = Call("to_absolute_coord on [usize; 2]", p, val)

RotateCoordOutOfRange ==
    /\ val.ty = "[usize; 2]"
    /\ \E r \in rotate_coord_outcomes(val.v) :
          val' = IF r.panic THEN Typed("panic", <<>>)
                            ELSE Typed("[usize; 2] (wrapped)", r.ret)
    /\ last' = Call("rotate_coord on [usize; 2]", NoPerspective, val)

RelativeIsWaterOutOfRange ==
    /\ val.ty = "[usize; 2]"
    /\ val' = Typed("bool", relative_is_water(val.v))
    /\ last' = Call("relative::is_water on [usize; 2]", NoPerspective, val)

RelativeDistanceOutOfRange ==
    /\ val.ty = "([usize; 2], [usize; 2])"
    /\ val' = Typed("i32", relative_distance(val.v[1], val.v[2]))
    /\ last' = Call("relative::distance on [usize; 2]", NoPerspective, val)

Next ==
    \/ \E p \in Perspective : ToAbsoluteBoard(p)
    \/ \E p \in Perspective : ToRelativeBoard(p)
    \/ \E p \in Perspective : ToAbsoluteField(p)
    \/ \E p \in Perspective : ToRelativeField(p)
    \/ \E p \in Perspective : ToAbsoluteSide(p)
    \/ \E p \in Perspective : ToRelativeSide(p)
    \/ \E p \in Perspective : ToAbsolutePiece(p)
    \/ \E p \in Perspective : ToRelativePiece(p)
    \/ \E p \in Perspective : ToAbsoluteCoord(p)
    \/ \E p \in Perspective : ToRelativeCoord(p)
    \/ ParseCoord
    \/ SerializeCoord
    \/ YhuapInitialBoardWhereBlackKingPointsUpward
    \/ YhuapInitialBoardWhereRedKingPointsUpward
    \/ YhuapInitialBoard
    \/ AbsoluteIsWater
    \/ RelativeIsWater
    \/ RotateCoord
    \/ RotateBoard
    \/ RelativeDistance
    \/ AbsoluteDistance
    \/ \E e \in HandSample, side \in RelativeSide : RelativeInsert(e.color, e.prof, side)
    \/ \E e \in HandSample, side \in AbsoluteSide : AbsoluteInsert(e.color, e.prof, side)
    \/ \E e \in HandArgs, side \in RelativeSide : RelativeFindAndRemove(e.color, e.prof, side)
    \/ \E e \in HandArgs, side \in AbsoluteSide : AbsoluteFindAndRemove(e.color, e.prof, side)
    \/ RelativeIsTam2
    \/ \E clr \in Color : RelativeHasColor(clr)
    \/ \E prf \in Profession : RelativeHasProf(prf)
    \/ \E sid \in RelativeSide : RelativeHasSide(sid)
    \/ AbsoluteIsTam2
    \/ \E clr \in Color : AbsoluteHasColor(clr)
    \/ \E prf \in Profession : AbsoluteHasProf(prf)
    \/ \E sid \in AbsoluteSide : AbsoluteHasSide(sid)
    \/ RelativeNot
    \/ AbsoluteNot
    \/ \E p \in Perspective : ToAbsoluteCoordOutOfRange(p)
    \/ RotateCoordOutOfRange
    \/ RelativeIsWaterOutOfRange
    \/ RelativeDistanceOutOfRange

Spec == Init /\ [][Next]_vars

(***************************************************************************)
(* Sequences of reserve operations on one Field.  val is the Field the     *)
(* caller holds; last is the latest call together with the Field the       *)
(* sequence started from (start) and the calls made so far (log).          *)
(***************************************************************************)
LoggedCall(op, arg, color, prof, side, start, log) ==
    [op |-> op, p |-> NoPerspective, arg |-> arg,
     color |-> color, prof |-> prof, side |-> side, start |-> start, log |-> log]

\* a Field with empty reserves and the initial layout on the board
ReserveInit ==
    /\ \/ val = Typed("relative::Field",
                      [current_board |-> yhuap_initial_board_where_black_king_points_upward,
                       hop1zuo1of_upward |-> <<>>,
                       hop1zuo1of_downward |-> <<>>])
       \/ val = Typed("absolute::Field",
                      [board |-> yhuap_initial_board,
                       a_side_hop1zuo1 |-> <<>>,
                       ia_side_hop1zuo1 |-> <<>>])
    /\ last = LoggedCall("init", Unit, "none", "none", "none", val, <<>>)

LoggedRelativeInsert(color, prof, side) ==
    /\ val.ty = "relative::Field"
    /\ Len(last.log) < MaxOps
    /\ val' = Typed("relative::Field",
                    relative_insert_nontam_piece_into_hop1zuo1(val.v, color, prof, side))
    /\ last' = LoggedCall("relative::Field::insert_nontam_piece_into_hop1zuo1",
                          val, color, prof, side, last.start,
                          Append(last.log, [kind |-> "insert", ok |-> TRUE, color |-> color,
                                            prof |-> prof, side |-> side]))

LoggedAbsoluteInsert(color, prof, side) ==
    /\ val.ty = "absolute::Field"
    /\ Len(last.log) < MaxOps
    /\ val' = Typed("absolute::Field",
                    absolute_insert_nontam_piece_into_hop1zuo1(val.v, color, prof, side))
    /\ last' = LoggedCall("absolute::Field::insert_nontam_piece_into_hop1zuo1",
                          val, color, prof, side, last.start,
                          Append(last.log, [kind |-> "insert", ok |-> TRUE, color |-> color,
                                            prof |-> prof, side |-> side]))

\* on Some(that) the caller goes on with `that`, on None with the Field it had
LoggedRelativeFindAndRemove(color, prof, side) ==
    /\ val.ty = "relative::Field"
    /\ Len(last.log) < MaxOps
    /\ LET r == relative_find_and_remove_piece_from_hop1zuo1(val.v, color, prof, side)
       IN  /\ val' = Typed("relative::Field", IF r.ret = None THEN r.self ELSE r.ret[1])
           /\ last' = LoggedCall("relative::Field::find_and_remove_piece_from_hop1zuo1",
                                 val, color, prof, side, last.start,
                                 Append(last.log, [kind |-> "remove", ok |-> r.ret # None,
                                                   color |-> color, prof |-> prof,
                                                   side |-> side]))

LoggedAbsoluteFindAndRemove(color, prof, side) ==
    /\ val.ty = "absolute::Field"
    /\ Len(last.log) < MaxOps
    /\ LET r == absolute_find_and_remove_piece_from_hop1zuo1(val.v, color, prof, side)
       IN  /\ val' = Typed("absolute::Field", IF r.ret = None THEN r.self ELSE r.ret[1])
           /\ last' = LoggedCall("absolute::Field::find_and_remove_piece_from_hop1zuo1",
                                 val, color, prof, side, last.start,
                                 Append(last.log, [kind |-> "remove", ok |-> r.ret # None,
                                                   color |-> color, prof |-> prof,
                                                   side |-> side]))

ReserveNext ==
    \/ \E e \in HandArgs, side \in RelativeSide : LoggedRelativeInsert(e.color, e.prof, side)
    \/ \E e \in HandArgs, side \in AbsoluteSide : LoggedAbsoluteInsert(e.color, e.prof, side)
    \/ \E e \in HandArgs, side \in RelativeSide :
          LoggedRelativeFindAndRemove(e.color, e.prof, side)
    \/ \E e \in HandArgs, side \in AbsoluteSide :
          LoggedAbsoluteFindAndRemove(e.color, e.prof, side)

ReserveSpec == ReserveInit /\ [][ReserveNext]_vars

(***************************************************************************)
(* Properties                                                              *)
(***************************************************************************)
\* the reserve of a side, as insert_nontam_piece_into_hop1zuo1 selects it
RelativeReserve(field, side) ==
    IF side = "Upward" THEN field.hop1zuo1of_upward ELSE field.hop1zuo1of_downward

AbsoluteReserve(field, side) ==
    IF side = "ASide" THEN field.a_side_hop1zuo1 ELSE field.ia_side_hop1zuo1

\* the non-empty cells of a relative board, over all 81 cells
Occupied(board) == {c \in RelativeCoord : board[c[1]][c[2]] # None}

\* C1: for every absolute Field f on the 81 legal coordinates and each
\* perspective p, to_absolute_field(to_relative_field(f, p), p) = f: the same
\* board entries on every square, edge squares included, and the same reserves.
C1_AbsoluteFieldRoundTrip ==
    last.op = "to_relative_field"
        => to_absolute_field(val.v, last.p) = last.arg.v

\* C2: to_absolute_board of the relative initial board where the black king
\* points upward, under IaIsDownAndPointsUpward, equals yhuap_initial_board
\* square for square.
C2_InitialBoardsAgree ==
    (/\ last.op = "to_absolute_board"
     /\ last.p = "IaIsDownAndPointsUpward"
     /\ last.arg.v = yhuap_initial_board_where_black_king_points_upward)
        => val.v = yhuap_initial_board

\* C3: for each perspective, to_absolute_coord and to_relative_coord are
\* mutual inverses on the 81 relative and the 81 absolute coordinates.
C3_CoordRoundTrip ==
    /\ last.op = "to_absolute_coord"
          => to_relative_coord(val.v, last.p) = last.arg.v
    /\ last.op = "to_relative_coord"
          => to_absolute_coord(val.v, last.p) = last.arg.v

\* C3 witness: KIA seen with IA up is the cell [0, 8], and the cell has been
\* computed by to_relative_coord.
C3_Witness ==
    /\ last.op = "to_relative_coord"
    /\ last.p = "IaIsUpAndPointsDownward"
    /\ last.arg.v = <<"IA", "K">>
    /\ val.v = <<0, 8>>

\* C4: to_absolute_board(b, p) has exactly one entry for each non-empty cell
\* among all 81 cells, keyed by to_absolute_coord of the cell with value
\* to_absolute_piece of its content, and no entry for an empty cell.
C4_AbsoluteBoardCellByCell ==
    last.op = "to_absolute_board"
        => LET b == last.arg.v
               p == last.p
               m == val.v
           IN  /\ \A c \in Occupied(b) :
                     /\ to_absolute_coord(c, p) \in DOMAIN m
                     /\ m[to_absolute_coord(c, p)] = to_absolute_piece(b[c[1]][c[2]][1], p)
               /\ \A a \in DOMAIN m :
                     \E c \in Occupied(b) : to_absolute_coord(c, p) = a
               /\ Cardinality(DOMAIN m) = Cardinality(Occupied(b))

\* C5: to_relative_board(m, p) is a 9 x 9 grid in which each of the 81 cells
\* [i, j] holds to_relative_piece of m's entry at to_absolute_coord([i, j], p)
\* when there is one, and is empty otherwise.
C5_RelativeBoardCellByCell ==
    last.op = "to_relative_board"
        => LET m == last.arg.v
               p == last.p
               b == val.v
           IN  /\ DOMAIN b = 0..8
               /\ \A i \in 0..8 : DOMAIN b[i] = 0..8
               /\ \A c \in RelativeCoord :
                     b[c[1]][c[2]] =
                        IF to_absolute_coord(c, p) \in DOMAIN m
                        THEN Some(to_relative_piece(m[to_absolute_coord(c, p)], p))
                        ELSE None

\* C6: for every relative Field f and each perspective p,
\* to_relative_field(to_absolute_field(f, p), p) = f: all 81 cells and both
\* reserves are the same.
C6_RelativeFieldRoundTrip ==
    last.op = "to_absolute_field"
        => to_relative_field(val.v, last.p) = last.arg.v

\* C7: in both field conversions the reserve of a relative side s and the
\* reserve of the absolute side to_absolute_side(s, p) hold the same
\* (color, prof) entries in the same order.
C7_ReservesFollowSides ==
    /\ last.op = "to_absolute_field"
          => \A s \in RelativeSide :
                AbsoluteReserve(val.v, to_absolute_side(s, last.p))
                    = RelativeReserve(last.arg.v, s)
    /\ last.op = "to_relative_field"
          => \A s \in RelativeSide :
                RelativeReserve(val.v, s)
                    = AbsoluteReserve(last.arg.v, to_absolute_side(s, last.p))

\* C7 witness: a field with two different non-empty reserves has been
\* converted with IA up, where Upward is the A side.
C7_Witness ==
    /\ last.op = "to_absolute_field"
    /\ last.p = "IaIsUpAndPointsDownward"
    /\ Len(last.arg.v.hop1zuo1of_upward) = 2
    /\ Len(last.arg.v.hop1zuo1of_downward) = 1
    /\ val.v.a_side_hop1zuo1 = last.arg.v.hop1zuo1of_upward

\* C8: for each perspective, to_absolute_side and to_relative_side are
\* mutual inverses on both relative and both absolute sides.
C8_SideRoundTrip ==
    /\ last.op = "to_absolute_side"
          => to_relative_side(val.v, last.p) = last.arg.v
    /\ last.op = "to_relative_side"
          => to_absolute_side(val.v, last.p) = last.arg.v

\* C8 witness: with IA up, the A side has been converted and is Upward.
C8_Witness ==
    /\ last.op = "to_relative_side"
    /\ last.p = "IaIsUpAndPointsDownward"
    /\ last.arg.v = "ASide"
    /\ val.v = "Upward"

\* C9: to_absolute_piece and to_relative_piece map Tam2 to Tam2; on a
\* NonTam2Piece they keep color and profession and replace only the side, by
\* to_absolute_side / to_relative_side under the same perspective; a red Uai1
\* of Upward under IaIsDownAndPointsUpward becomes a red Uai1 of IASide, and back.
C9_PieceConversion ==
    /\ last.op = "to_absolute_piece"
          => IF last.arg.v = Tam2
             THEN val.v = Tam2
             ELSE /\ val.v.kind = "NonTam2Piece"
                  /\ val.v.color = last.arg.v.color
                  /\ val.v.prof = last.arg.v.prof
                  /\ val.v.side = to_absolute_side(last.arg.v.side, last.p)
    /\ last.op = "to_relative_piece"
          => IF last.arg.v = Tam2
             THEN val.v = Tam2
             ELSE /\ val.v.kind = "NonTam2Piece"
                  /\ val.v.color = last.arg.v.color
                  /\ val.v.prof = last.arg.v.prof
                  /\ val.v.side = to_relative_side(last.arg.v.side, last.p)
    /\ (/\ last.op = "to_absolute_piece"
        /\ last.p = "IaIsDownAndPointsUpward"
        /\ last.arg.v = NonTam2Piece("Kok1", "Uai1", "Upward"))
          => val.v = NonTam2Piece("Kok1", "Uai1", "IASide")
    /\ (/\ last.op = "to_relative_piece"
        /\ last.p = "IaIsDownAndPointsUpward"
        /\ last.arg.v = NonTam2Piece("Kok1", "Uai1", "IASide"))
          => val.v = NonTam2Piece("Kok1", "Uai1", "Upward")

\* C9 witness: the red Uai1 of Upward has been converted with IA down.
C9_Witness ==
    /\ last.op = "to_absolute_piece"
    /\ last.p = "IaIsDownAndPointsUpward"
    /\ last.arg.v = NonTam2Piece("Kok1", "Uai1", "Upward")
    /\ val.v.side = "IASide"

\* C10: parse_coord(serialize_coord(c)) = Some(c) for every coordinate c, and
\* serialize_coord(parse_coord(s)) = s for every string s that parse_coord
\* accepts; "NE" is column N / row E, "ZAU" column Z / row AU, "LIA" column L /
\* row IA.
C10_LabelRoundTrip ==
    /\ last.op = "serialize_coord"
          => parse_coord(val.v) = Some(last.arg.v)
    /\ (last.op = "parse_coord" /\ val.v # None)
          => serialize_coord(val.v[1]) = last.arg.v
    /\ (last.op = "parse_coord" /\ last.arg.v = <<"N", "E">>)
          => val.v = Some(<<"E", "N">>)
    /\ (last.op = "parse_coord" /\ last.arg.v = <<"Z", "A", "U">>)
          => val.v = Some(<<"AU", "Z">>)
    /\ (last.op = "parse_coord" /\ last.arg.v = <<"L", "I", "A">>)
          => val.v = Some(<<"IA", "L">>)
    /\ (last.op = "serialize_coord" /\ last.arg.v = <<"E", "N">>)
          => val.v = <<"N", "E">>
    /\ (last.op = "serialize_coord" /\ last.arg.v = <<"AU", "Z">>)
          => val.v = <<"Z", "A", "U">>

\* C10 witness: "ZAI" has been parsed and accepted as column Z / row AI.
C10_Witness ==
    /\ last.op = "parse_coord"
    /\ last.arg.v = <<"Z", "A", "I">>
    /\ val.v = Some(<<"AI", "Z">>)


\* C11: parse_coord returns None, and never panics, for every input that is
\* empty, longer than 3 bytes, whose first character is not one of the 9 column
\* symbols, or whose remainder is not exactly one of the 9 row symbols; the
\* match is case-sensitive ("LiA" is rejected) and a column letter with no row
\* part ("K") is rejected.
C11_ParseRejects ==
    last.op = "parse_coord"
        => LET s == last.arg.v
               malformed ==
                   \/ s = <<>>
                   \/ str_len(s) > 3
                   \/ Head(s) \notin {"K", "L", "N", "T", "Z", "X", "C", "M", "P"}
                   \/ Tail(s) \notin RowLabels
           IN  /\ val.ty # "panic"
               /\ malformed => val = Typed("Option<absolute::Coord>", None)
               /\ s = <<"L", "i", "A">> => val.v = None
               /\ s = <<"K">> => val.v = None

\* C11 witness: "LiA" has been parsed and rejected.
C11_Witness ==
    /\ last.op = "parse_coord"
    /\ last.arg.v = <<"L", "i", "A">>
    /\ val = Typed("Option<absolute::Coord>", None)


\* C12: for every one of the 81 absolute coordinates c and both perspectives
\* p, absolute::is_water(c) = relative::is_water(to_relative_coord(c, p)), and
\* each of the two predicates is true on exactly 9 squares.
C12_WaterAgrees ==
    /\ last.op = "absolute::is_water"
          => \A p \in Perspective :
                val.v = relative_is_water(to_relative_coord(last.arg.v, p))
    /\ last.op = "relative::is_water"
          => \A p \in Perspective :
                val.v = absolute_is_water(to_absolute_coord(last.arg.v, p))
    /\ last.op \in {"absolute::is_water", "relative::is_water"}
          => /\ Cardinality({c \in AbsoluteCoord : absolute_is_water(c)}) = 9
             /\ Cardinality({c \in RelativeCoord : relative_is_water(c)}) = 9

\* C12 witness: absolute::is_water has answered true for ZI, an arm square.
C12_Witness ==
    /\ last.op = "absolute::is_water"
    /\ last.arg.v = <<"I", "Z">>
    /\ val.v = TRUE

\* C13: rotate_board(rotate_board(b)) = b for every relative board b, Tam2 and
\* empty cells included; rotate_coord(rotate_coord(c)) = c for every coordinate
\* c in [0,8] x [0,8], where rotate_coord([r, c]) = [8 - r, 8 - c].
C13_RotationInvolution ==
    /\ last.op = "rotate_board"
          => rotate_board(val.v) = last.arg.v
    /\ last.op = "rotate_coord"
          => /\ rotate_coord(val.v) = last.arg.v
             /\ val.v[1] = 8 - last.arg.v[1]
             /\ val.v[2] = 8 - last.arg.v[2]

\* C13 witness: the initial board has been rotated, and the black king of
\* [8, 4] now stands on [0, 4] and points downward.
C13_Witness ==
    /\ last.op = "rotate_board"
    /\ last.arg.v = yhuap_initial_board_where_black_king_points_upward
    /\ val.v[0][4] = Some(NonTam2Piece("Huok2", "Io", "Downward"))
    /\ val.v[4][4] = Some(Tam2)


\* C14: relative::distance(a, b) = max(|a.row - b.row|, |a.col - b.col|) for
\* all coordinates in [0,8] x [0,8]; distance([4,5],[4,0]) = 5 and
\* distance([4,5],[1,2]) = 3.
C14_Chebyshev ==
    last.op = "relative::distance"
        => LET a == last.arg.v[1]
               b == last.arg.v[2]
               dr == IF a[1] >= b[1] THEN a[1] - b[1] ELSE b[1] - a[1]
               dc == IF a[2] >= b[2] THEN a[2] - b[2] ELSE b[2] - a[2]
           IN  /\ val.v \in {dr, dc}
               /\ val.v >= dr
               /\ val.v >= dc
               /\ (a = <<4, 5>> /\ b = <<4, 0>>) => val.v = 5
               /\ (a = <<4, 5>> /\ b = <<1, 2>>) => val.v = 3

\* C14 witness: the distance of [4,5] and [1,2] has been computed and is 3.
C14_Witness ==
    /\ last.op = "relative::distance"
    /\ last.arg.v = << <<4, 5>>, <<1, 2>> >>
    /\ val.v = 3

\* C15: in both coordinate systems distance(a, b) = distance(b, a) and
\* distance(a, a) = 0.
C15_DistanceSymmetric ==
    /\ last.op = "relative::distance"
          => /\ val.v = relative_distance(last.arg.v[2], last.arg.v[1])
             /\ last.arg.v[1] = last.arg.v[2] => val.v = 0
    /\ last.op = "absolute::distance"
          => /\ val.v = absolute_distance(last.arg.v[2], last.arg.v[1])
             /\ last.arg.v[1] = last.arg.v[2] => val.v = 0

\* C15 witness: the distance of two opposite corners, taken from the smaller
\* row to the larger one, has been computed.
C15_Witness ==
    /\ last.op = "relative::distance"
    /\ last.arg.v = << <<0, 8>>, <<8, 0>> >>
    /\ val.v = 8

\* C16: absolute::distance(a, b) does not depend on the perspective used to
\* normalise: relative::distance of the two coordinates converted under either
\* perspective equals absolute::distance(a, b); distance(KA, NI) = 2.
C16_DistancePerspectiveFree ==
    last.op = "absolute::distance"
        => /\ \A p \in Perspective :
                 relative_distance(to_relative_coord(last.arg.v[1], p),
                                   to_relative_coord(last.arg.v[2], p)) = val.v
           /\ last.arg.v = << <<"A", "K">>, <<"I", "N">> >> => val.v = 2

\* C16 witness: the distance of KA and NI has been computed and is 2.
C16_Witness ==
    /\ last.op = "absolute::distance"
    /\ last.arg.v = << <<"A", "K">>, <<"I", "N">> >>
    /\ val.v = 2


\* the Field methods that push onto and that remove from a reserve
InsertOps ==
    {"relative::Field::insert_nontam_piece_into_hop1zuo1",
     "absolute::Field::insert_nontam_piece_into_hop1zuo1"}

RemoveOps ==
    {"relative::Field::find_and_remove_piece_from_hop1zuo1",
     "absolute::Field::find_and_remove_piece_from_hop1zuo1"}

\* the reserve of a side in either kind of Field, the other side, the board
ReserveOf(field, side) ==
    IF side \in RelativeSide THEN RelativeReserve(field, side)
                             ELSE AbsoluteReserve(field, side)

OtherSide(side) ==
    CASE side = "Upward" -> "Downward"
      [] side = "Downward" -> "Upward"
      [] side = "ASide" -> "IASide"
      [] side = "IASide" -> "ASide"

BoardOf(field, side) ==
    IF side \in RelativeSide THEN field.current_board ELSE field.board

\* the places (from 1) of a reserve that hold an entry equal to (color, prof)
Matches(hop1zuo1, color, prof) ==
    {k \in 1..Len(hop1zuo1) : hop1zuo1[k] = [color |-> color, prof |-> prof]}

\* C17: insert_nontam_piece_into_hop1zuo1(color, prof, side), on a relative
\* and on an absolute Field, leaves the reserve of `side` one entry longer,
\* the new last entry being (color, prof) and the earlier entries unchanged,
\* whether or not an equal entry was present; the other side's reserve and
\* the board are unchanged.
C17_InsertAppends ==
    last.op \in InsertOps
        => LET old == ReserveOf(last.arg.v, last.side)
               new == ReserveOf(val.v, last.side)
           IN  /\ Len(new) = Len(old) + 1
               /\ new[Len(new)] = [color |-> last.color, prof |-> last.prof]
               /\ SubSeq(new, 1, Len(old)) = old
               /\ ReserveOf(val.v, OtherSide(last.side))
                      = ReserveOf(last.arg.v, OtherSide(last.side))
               /\ BoardOf(val.v, last.side) = BoardOf(last.arg.v, last.side)

\* C17 witness: an entry was inserted into a reserve that already held an
\* equal entry, the other side's reserve being non-empty
C17_Witness ==
    /\ last.op \in InsertOps
    /\ Matches(ReserveOf(last.arg.v, last.side), last.color, last.prof) # {}
    /\ ReserveOf(last.arg.v, OtherSide(last.side)) # <<>>


\* C18: when the reserve of `side` holds at least one entry equal to
\* (color, prof), find_and_remove_piece_from_hop1zuo1, on a relative and on an
\* absolute Field, returns a Field whose reserve of `side` is the input's
\* without the entry at the lowest matching place, the other entries in their
\* order, and whose other reserve and board are the input's.
C18_RemovesFirstMatch ==
    (/\ last.op \in RemoveOps
     /\ Matches(ReserveOf(last.arg.v, last.side), last.color, last.prof) # {})
        => /\ val.v # None
           /\ LET old == ReserveOf(last.arg.v, last.side)
                  matching == Matches(old, last.color, last.prof)
                  k == CHOOSE m \in matching : \A n \in matching : m <= n
              IN  /\ ReserveOf(val.v[1], last.side)
                         = SubSeq(old, 1, k - 1) \o SubSeq(old, k + 1, Len(old))
                  /\ ReserveOf(val.v[1], OtherSide(last.side))
                         = ReserveOf(last.arg.v, OtherSide(last.side))
                  /\ BoardOf(val.v[1], last.side) = BoardOf(last.arg.v, last.side)

\* C18 witness: an entry was removed from a reserve that held two equal
\* entries with a different one between them
C18_Witness ==
    /\ last.op \in RemoveOps
    /\ val.v # None
    /\ LET old == ReserveOf(last.arg.v, last.side)
       IN  /\ Len(old) = 3
           /\ Matches(old, last.color, last.prof) = {1, 3}

\* C19: find_and_remove_piece_from_hop1zuo1 returns None exactly when the
\* reserve of `side` holds no entry equal to (color, prof), whatever the other
\* side's reserve holds, and the Field it was called on is the same after the
\* call as before it.
C19_NoneIffAbsent ==
    last.op \in RemoveOps
        => /\ (val.v = None)
                <=> (Matches(ReserveOf(last.arg.v, last.side), last.color, last.prof) = {})
           /\ last.self = last.arg.v

\* C19 witness: None was returned although the other side's reserve held an
\* equal entry
C19_Witness ==
    /\ last.op \in RemoveOps
    /\ val.v = None
    /\ Matches(ReserveOf(last.arg.v, OtherSide(last.side)), last.color, last.prof) # {}

\* C20: when the reserve of `side` holds exactly one entry equal to
\* (color, prof), find_and_remove_piece_from_hop1zuo1(color, prof, side)
\* returns Some(..), and the same call with the same arguments on the Field it
\* returned gives None.
C20_RemoveThenAbsent ==
    /\ (/\ last.op \in RemoveOps
        /\ Cardinality(Matches(ReserveOf(last.arg.v, last.side),
                               last.color, last.prof)) = 1)
           => val.v # None
    /\ (/\ last.op \in RemoveOps
        /\ last.prev # None
        /\ last.prev[1].op = last.op
        /\ last.prev[1].color = last.color
        /\ last.prev[1].prof = last.prof
        /\ last.prev[1].side = last.side
        /\ Cardinality(Matches(ReserveOf(last.prev[1].arg.v, last.side),
                               last.color, last.prof)) = 1)
           => val.v = None

\* C20 witness: the second of two calls with the same arguments has returned,
\* the first having been made on a reserve with exactly one equal entry and
\* another entry besides
C20_Witness ==
    /\ last.op \in RemoveOps
    /\ last.prev # None
    /\ last.prev[1].color = last.color
    /\ last.prev[1].prof = last.prof
    /\ last.prev[1].side = last.side
    /\ Cardinality(Matches(ReserveOf(last.prev[1].arg.v, last.side),
                           last.color, last.prof)) = 1
    /\ Len(ReserveOf(last.prev[1].arg.v, last.side)) > 1
    /\ val.v = None


\* the Piece predicates of both frames, by what they ask about
IsTam2Ops == {"relative::Piece::is_tam2", "absolute::Piece::is_tam2"}

HasColorOps == {"relative::Piece::has_color", "absolute::Piece::has_color"}

HasProfOps == {"relative::Piece::has_prof", "absolute::Piece::has_prof"}

HasSideOps == {"relative::Piece::has_side", "absolute::Piece::has_side"}

\* C21: on Tam2, relative or absolute, is_tam2 is true and has_color,
\* has_prof and has_side are false whatever is asked; on a NonTam2Piece
\* is_tam2 is false and has_color, has_prof, has_side are true exactly when
\* the argument is the piece's own color, profession, side.
C21_PiecePredicates ==
    /\ last.op \in IsTam2Ops => (val.v <=> (last.arg.v = Tam2))
    /\ (last.op \in HasColorOps \cup HasProfOps \cup HasSideOps /\ last.arg.v = Tam2)
           => val.v = FALSE
    /\ (last.op \in HasColorOps /\ last.arg.v # Tam2)
           => (val.v <=> (last.arg.v.color = last.x))
    /\ (last.op \in HasProfOps /\ last.arg.v # Tam2)
           => (val.v <=> (last.arg.v.prof = last.x))
    /\ (last.op \in HasSideOps /\ last.arg.v # Tam2)
           => (val.v <=> (last.arg.v.side = last.x))

\* C21 witness: has_color was asked of Tam2 about black
C21_Witness ==
    /\ last.op = "absolute::Piece::has_color"
    /\ last.arg.v = Tam2
    /\ last.x = "Huok2"
    /\ val.v = FALSE

\* C22: the flip of a side, relative or absolute, is a different side, and
\* the flip of that is the side flipped first.
C22_SideFlipInvolution ==
    /\ last.op = "relative::Side::not"
           => (relative_not(val.v) = last.arg.v /\ val.v # last.arg.v)
    /\ last.op = "absolute::Side::not"
           => (absolute_not(val.v) = last.arg.v /\ val.v # last.arg.v)

\* C22 witness: ASide has been flipped
C22_Witness ==
    /\ last.op = "absolute::Side::not"
    /\ last.arg.v = "ASide"
    /\ val.v = "IASide"


\* C23: to_absolute_coord([row, col], p) is the row label at place row of
\* A, E, I, U, O, Y, AI, AU, IA and the column label at place col of
\* K, L, N, T, Z, X, C, M, P under IaIsDownAndPointsUpward, and the labels at
\* places 8 - row and 8 - col under IaIsUpAndPointsDownward; [2, 4] under
\* IaIsDownAndPointsUpward is row I, column Z.
C23_CoordLabels ==
    last.op = "to_absolute_coord"
        => LET RowOrder == <<"A", "E", "I", "U", "O", "Y", "AI", "AU", "IA">>
               ColumnOrder == <<"K", "L", "N", "T", "Z", "X", "C", "M", "P">>
               row == last.arg.v[1]
               col == last.arg.v[2]
           IN  /\ last.p = "IaIsDownAndPointsUpward"
                      => val.v = <<RowOrder[row + 1], ColumnOrder[col + 1]>>
               /\ last.p = "IaIsUpAndPointsDownward"
                      => val.v = <<RowOrder[(8 - row) + 1], ColumnOrder[(8 - col) + 1]>>
               /\ (last.arg.v = <<2, 4>> /\ last.p = "IaIsDownAndPointsUpward")
                      => val.v = <<"I", "Z">>

\* C23 witness: [2, 4] has been converted under IaIsDownAndPointsUpward
C23_Witness ==
    /\ last.op = "to_absolute_coord"
    /\ last.p = "IaIsDownAndPointsUpward"
    /\ last.arg.v = <<2, 4>>
    /\ val.v = <<"I", "Z">>


\* C24: relative::is_water([r, c]) is true exactly when r = 4 and 2 <= c <= 6
\* or c = 4 and 2 <= r <= 6; absolute::is_water is true exactly for NO, TO,
\* ZO, XO, CO, ZI, ZU, ZY, ZAI; each is a plus of 9 squares, and its centre,
\* [4, 4] or ZO, is the one square where the initial layouts place Tam2.
C24_WaterPlus ==
    LET RelativeWater == {c \in RelativeCoord :
                             \/ (c[1] = 4 /\ 2 <= c[2] /\ c[2] <= 6)
                             \/ (c[2] = 4 /\ 2 <= c[1] /\ c[1] <= 6)}
        AbsoluteWater == {<<"O", "N">>, <<"O", "T">>, <<"O", "Z">>, <<"O", "X">>,
                          <<"O", "C">>, <<"I", "Z">>, <<"U", "Z">>, <<"Y", "Z">>,
                          <<"AI", "Z">>}
    IN  /\ last.op = "relative::is_water"
               => /\ val.v <=> (last.arg.v \in RelativeWater)
                  /\ Cardinality(RelativeWater) = 9
        /\ last.op = "absolute::is_water"
               => /\ val.v <=> (last.arg.v \in AbsoluteWater)
                  /\ Cardinality(AbsoluteWater) = 9
        /\ last.op \in {"yhuap_initial_board_where_black_king_points_upward",
                        "yhuap_initial_board_where_red_king_points_upward"}
               => /\ \A c \in RelativeCoord :
                        (val.v[c[1]][c[2]] = Some(Tam2)) <=> (c = <<4, 4>>)
                  /\ relative_is_water(<<4, 4>>)
                  /\ \A d \in {<<3, 4>>, <<5, 4>>, <<4, 3>>, <<4, 5>>} : relative_is_water(d)
        /\ last.op = "yhuap_initial_board"
               => /\ \A c \in DOMAIN val.v : (val.v[c] = Tam2) <=> (c = <<"O", "Z">>)
                  /\ <<"O", "Z">> \in DOMAIN val.v
                  /\ absolute_is_water(<<"O", "Z">>)
                  /\ \A d \in {<<"U", "Z">>, <<"Y", "Z">>, <<"O", "T">>, <<"O", "X">>} :
                        absolute_is_water(d)

\* C24 witness: relative::is_water has answered true for [6, 4], the end of
\* an arm of the plus
C24_Witness ==
    /\ last.op = "relative::is_water"
    /\ last.arg.v = <<6, 4>>
    /\ val.v = TRUE


\* C25: for every relative board b and every [i, j] in [0,8] x [0,8],
\* rotate_board(b)[i][j] is empty when b[8-i][8-j] is empty, Tam2 when it is
\* Tam2, and otherwise the piece of b[8-i][8-j] with its color and profession
\* and the opposite side; b is the same after the call.
C25_RotateCellByCell ==
    last.op = "rotate_board"
        => /\ \A i \in 0..8, j \in 0..8 :
                 LET from == last.arg.v[8 - i][8 - j]
                     to == val.v[i][j]
                 IN  /\ from = None => to = None
                     /\ from = Some(Tam2) => to = Some(Tam2)
                     /\ (from # None /\ from # Some(Tam2))
                            => /\ to # None
                               /\ to[1].kind = "NonTam2Piece"
                               /\ to[1].color = from[1].color
                               /\ to[1].prof = from[1].prof
                               /\ to[1].side # from[1].side
                               /\ to[1].side \in RelativeSide
           /\ last.b = last.arg.v

\* C25 witness: a board with an empty cell, Tam2, an Upward and a Downward
\* piece has been rotated
C25_Witness ==
    /\ last.op = "rotate_board"
    /\ \E c \in RelativeCoord : last.arg.v[c[1]][c[2]] = None
    /\ \E c \in RelativeCoord : last.arg.v[c[1]][c[2]] = Some(Tam2)
    /\ \A s \in RelativeSide : \E c \in RelativeCoord :
          /\ last.arg.v[c[1]][c[2]] \notin {None, Some(Tam2)}
          /\ last.arg.v[c[1]][c[2]][1].side = s
          /\ val.v[8 - c[1]][8 - c[2]][1].side = relative_not(s)


\* the calls made with a relative coordinate whose row or column is past 8
OutOfRangeOps ==
    {"to_absolute_coord on [usize; 2]", "rotate_coord on [usize; 2]",
     "relative::is_water on [usize; 2]", "relative::distance on [usize; 2]"}

\* C26: to_absolute_coord, rotate_coord, relative::is_water and
\* relative::distance all fail on a relative coordinate with a row or column
\* outside [0,8]; none of them returns an ordinary result for it.
C26_OutOfRangeFails ==
    last.op \in OutOfRangeOps => val.ty = "panic"


\* C27: for every absolute board m on the 81 coordinates,
\* to_relative_board(m, IaIsUpAndPointsDownward) is
\* rotate_board(to_relative_board(m, IaIsDownAndPointsUpward)), and for every
\* absolute coordinate c, to_relative_coord(c, IaIsUpAndPointsDownward) is
\* rotate_coord(to_relative_coord(c, IaIsDownAndPointsUpward)).
C27_PerspectivesDifferByRotation ==
    /\ (last.op = "to_relative_board" /\ last.p = "IaIsUpAndPointsDownward")
           => val.v = rotate_board(to_relative_board(last.arg.v, "IaIsDownAndPointsUpward"))
    /\ (last.op = "to_relative_coord" /\ last.p = "IaIsUpAndPointsDownward")
           => val.v = rotate_coord(to_relative_coord(last.arg.v, "IaIsDownAndPointsUpward"))


\* C28: for every relative Field f, perspective p, color, profession and
\* relative side s: to_absolute_field of f after inserting (color, prof) for s
\* is to_absolute_field(f, p) after inserting (color, prof) for
\* to_absolute_side(s, p); and find_and_remove_piece_from_hop1zuo1 returns
\* Some on f for s exactly when it does on to_absolute_field(f, p) for
\* to_absolute_side(s, p), the Field in the one being to_absolute_field of the
\* Field in the other.
C28_ReserveOpsCommute ==
    /\ last.op = "relative::Field::insert_nontam_piece_into_hop1zuo1"
           => \A p \in Perspective :
                 to_absolute_field(val.v, p)
                     = absolute_insert_nontam_piece_into_hop1zuo1(
                           to_absolute_field(last.arg.v, p),
                           last.color, last.prof, to_absolute_side(last.side, p))
    /\ last.op = "relative::Field::find_and_remove_piece_from_hop1zuo1"
           => \A p \in Perspective :
                 LET a == absolute_find_and_remove_piece_from_hop1zuo1(
                              to_absolute_field(last.arg.v, p),
                              last.color, last.prof, to_absolute_side(last.side, p)).ret
                 IN  /\ (val.v = None) <=> (a = None)
                     /\ val.v # None => a = Some(to_absolute_field(val.v[1], p))

\* C28 witness: an entry has been removed from the Upward reserve of a Field
\* with pieces on the board and an equal entry left in the Downward reserve
C28_Witness ==
    /\ last.op = "relative::Field::find_and_remove_piece_from_hop1zuo1"
    /\ val.v # None
    /\ last.side = "Upward"
    /\ Matches(val.v[1].hop1zuo1of_downward, last.color, last.prof) # {}
    /\ last.arg.v.current_board = yhuap_initial_board_where_black_king_points_upward


\* the (color, prof) entries of the calls of one kind made for one side that
\* took effect, in the order of the calls
Logged(log, kind, side) ==
    LET calls == SelectSeq(log, LAMBDA e : e.kind = kind /\ e.side = side /\ e.ok)
    IN  [k \in 1..Len(calls) |-> [color |-> calls[k].color, prof |-> calls[k].prof]]

\* how often a reserve or a list of entries holds e
Count(hop1zuo1, e) == Cardinality({k \in 1..Len(hop1zuo1) : hop1zuo1[k] = e})

\* whether s is t with some entries left out
RECURSIVE IsSubsequence(_, _)
IsSubsequence(s, t) ==
    IF s = <<>> THEN TRUE
    ELSE IF t = <<>> THEN FALSE
    ELSE IF Head(s) = Head(t) THEN IsSubsequence(Tail(s), Tail(t))
    ELSE IsSubsequence(s, Tail(t))

\* C29: after any sequence of insert_nontam_piece_into_hop1zuo1 and
\* find_and_remove_piece_from_hop1zuo1 calls on a Field that started with
\* empty reserves, the reserve of each side is as long as the inserts for
\* that side minus the successful removes for it, holds each entry as often
\* as it was inserted minus removed for that side, lists its entries in the
\* order of their insertion, and the board is the one at the start; the
\* latest call left the reserve of the side it was not addressed to as it was.
C29_ReserveHistory ==
    LET sides == IF val.ty = "relative::Field" THEN RelativeSide ELSE AbsoluteSide
        any == CHOOSE s \in sides : TRUE
    IN  /\ \A side \in sides :
              LET reserve == ReserveOf(val.v, side)
                  inserted == Logged(last.log, "insert", side)
                  removed == Logged(last.log, "remove", side)
              IN  /\ Len(reserve) = Len(inserted) - Len(removed)
                  /\ \A e \in HandArgs :
                        Count(reserve, e) = Count(inserted, e) - Count(removed, e)
                  /\ IsSubsequence(reserve, inserted)
        /\ BoardOf(val.v, any) = BoardOf(last.start.v, any)
        /\ last.op # "init"
               => ReserveOf(val.v, OtherSide(last.side))
                      = ReserveOf(last.arg.v, OtherSide(last.side))

\* C29 witness: three different entries were inserted for one side, one for
\* no side but that, and the first of the three was then removed
C29_Witness ==
    /\ Len(last.log) = 4
    /\ last.log[4].kind = "remove"
    /\ last.log[4].ok
    /\ \A k \in 1..3 : last.log[k].kind = "insert"
    /\ LET inserted == Logged(last.log, "insert", last.side)
       IN  /\ Len(inserted) = 3
           /\ Cardinality({inserted[k] : k \in 1..3}) = 3
           /\ inserted[1] = [color |-> last.color, prof |-> last.prof]
           /\ ReserveOf(val.v, last.side) = <<inserted[2], inserted[3]>>

====
